---- MODULE Spec2Model ----
(***************************************************************************)
(* Low-stock alert endpoint (src/lowstocklert.py): the pure helpers         *)
(* calculate_days_until_stockout, calculate_urgency and                     *)
(* calculate_reorder_quantity, and the request handler get_low_stock_alerts *)
(* with its Redis cache-aside layer, run against an inventory / sales       *)
(* database that changes underneath it.                                     *)
(*                                                                         *)
(* Representation.                                                         *)
(*  - A Python value that may be None is a sequence: None is <<>> and a     *)
(*    present value v is <<v>>.                                             *)
(*  - avg_daily_sales is total_quantity / 30 in the source.  The model      *)
(*    carries the numerator (the quantity sold in the window) and divides   *)
(*    by SalesPeriodDays where the source divides by the average.  On the   *)
(*    quantities used here (see Stocks, Totals, FnStocks, FnTotals) the     *)
(*    float result int(stock / (total / 30)) equals the exact floor.        *)
(*  - threshold_multiplier is a float in the source; the model draws it     *)
(*    from whole numbers.  SUM(quantity) is taken to be an int.             *)
(***************************************************************************)
EXTENDS Integers, Sequences, FiniteSets, TLC

None == <<>>
Some(v) == <<v>>

\* ----------------------------------------------------------------------
\* Program constants
\* ----------------------------------------------------------------------
SalesPeriodDays == 30
CacheTTL == 300
MaxLimit == 1000
NoDaysSortKey == 999

\* ----------------------------------------------------------------------
\* Bounds of the model
\* ----------------------------------------------------------------------
MaxRequests == 1
MaxCacheRequests == 2
MaxConcRequests == 2
MaxCalls == 3
MaxChanges == 1
MaxTime == 300
MaxFnDays == 16
MaxFnThreshold == 6

\* ----------------------------------------------------------------------
\* Stored data the handler reads but never writes
\* ----------------------------------------------------------------------
\* Active organizations (Organization.query.get(company_id), is_active).
ActiveOrganizations == {42}

\* Inventory joined with Product and Warehouse: the active product /
\* warehouse pairs of organization 42.  quantity_available and the sales of
\* each pair are the variables stock and sold.  Pass-through columns
\* (product_name, category, warehouse_name, last_counted_at) are left out.
InventoryRows ==
    { [organization_id |-> 42, product_id |-> 1, warehouse_id |-> 7, sku |-> "WID-1",
       low_stock_threshold |-> 20],
      [organization_id |-> 42, product_id |-> 2, warehouse_id |-> 8, sku |-> "WID-2",
       low_stock_threshold |-> 20] }

RowKey(row) == <<row.product_id, row.warehouse_id>>
RowKeys == { RowKey(row) : row \in InventoryRows }

\* ProductSupplier joined with Supplier.  Product 1 has a preferred relation
\* to an inactive supplier and one other relation to an active supplier;
\* product 2 has no supplier.  No product has two candidates at either
\* stage of the lookup, so .first() has one possible result.
ProductSuppliers ==
    { [id |-> 1, product_id |-> 1, is_preferred |-> TRUE, supplier_active |-> FALSE,
       supplier_id |-> 10, lead_time_days |-> 5, minimum_order_quantity |-> Some(50)],
      [id |-> 2, product_id |-> 1, is_preferred |-> FALSE, supplier_active |-> TRUE,
       supplier_id |-> 11, lead_time_days |-> 9, minimum_order_quantity |-> Some(25)] }

\* ----------------------------------------------------------------------
\* Helper functions
\* ----------------------------------------------------------------------
\* avg_daily_sales is None, or <<n>> for n / SalesPeriodDays units a day.
calculate_days_until_stockout(current_stock, avg_daily_sales) ==
    IF avg_daily_sales = None \/ avg_daily_sales[1] <= 0 THEN None
    ELSE IF current_stock <= 0 THEN Some(0)
    ELSE Some((current_stock * SalesPeriodDays) \div avg_daily_sales[1])

calculate_urgency_strict(days_until_stockout, current_stock) ==
    IF current_stock <= 0 THEN "critical"
    ELSE IF days_until_stockout = None THEN "low"
    ELSE IF days_until_stockout[1] < 3 THEN "critical"
    ELSE IF days_until_stockout[1] < 7 THEN "high"
    ELSE IF days_until_stockout[1] < 14 THEN "medium"
    ELSE "low"

calculate_urgency(days_until_stockout, current_stock) ==
    IF current_stock <= 0 THEN "critical"
    ELSE IF days_until_stockout = None THEN "low"
    ELSE IF days_until_stockout[1] <= 3 THEN "critical"
    ELSE IF days_until_stockout[1] <= 7 THEN "high"
    ELSE IF days_until_stockout[1] <= 14 THEN "medium"
    ELSE "low"

\* Python truthiness of supplier_info.get('minimum_order_quantity').
HasMoq(supplier_info) ==
    /\ supplier_info # None
    /\ supplier_info[1].minimum_order_quantity # None
    /\ supplier_info[1].minimum_order_quantity[1] # 0

calculate_reorder_quantity_nofloor(threshold, current_stock, supplier_info) ==
    LET target_stock == threshold * 2
        needed0 == target_stock - current_stock
        needed1 == IF HasMoq(supplier_info)
                      /\ needed0 < supplier_info[1].minimum_order_quantity[1]
                   THEN supplier_info[1].minimum_order_quantity[1]
                   ELSE needed0
    IN  ((needed1 + 9) \div 10) * 10

calculate_reorder_quantity(threshold, current_stock, supplier_info) ==
    LET target_stock == threshold * 2
        needed0 == target_stock - current_stock
        needed1 == IF HasMoq(supplier_info)
                      /\ needed0 < supplier_info[1].minimum_order_quantity[1]
                   THEN supplier_info[1].minimum_order_quantity[1]
                   ELSE needed0
        rounded == ((needed1 + 9) \div 10) * 10
    IN  IF rounded > 10 THEN rounded ELSE 10

get_preferred_supplier(product_id) ==
    LET preferred == { r \in ProductSuppliers :
                         r.product_id = product_id /\ r.is_preferred /\ r.supplier_active }
        anyActive == { r \in ProductSuppliers :
                         r.product_id = product_id /\ r.supplier_active }
        found == IF preferred # {} THEN preferred ELSE anyActive
    IN  IF found = {} THEN None
        ELSE LET r == CHOOSE x \in found : TRUE
             IN  Some([id |-> r.supplier_id,
                       lead_time_days |-> r.lead_time_days,
                       minimum_order_quantity |-> r.minimum_order_quantity])

\* sales_data of get_recent_sales_data: one entry per pair with qualifying
\* order items, holding the quantity sold in the window (the numerator of
\* avg_daily = total_quantity / days).
get_recent_sales_data(sales) ==
    [ k \in { q \in RowKeys : sales[q] > 0 } |-> sales[k] ]

\* sales_data.get(key, 0)
SalesGet(sales_data, key) ==
    IF key \in DOMAIN sales_data THEN sales_data[key] ELSE 0

\* round(avg_daily_sales, 2), in hundredths of a unit.  total * 100 / 30 is
\* never half-way between two integers, so nearest is the only rounding.
Round2(total) == (total * 100 * 2 + SalesPeriodDays) \div (2 * SalesPeriodDays)

\* ----------------------------------------------------------------------
\* Input domains
\* ----------------------------------------------------------------------
Workers == {"w1", "w2"}
CompanyIds == {42, 43}
WarehouseIds == {None, Some(7)}
Multipliers == {-1, 0, 1, 2}
Limits == {1, 1000, 1001}
Stocks == {0, 5, 34}
Totals == {0, 1, 30}
\* What stock and sales move to while requests are served, and by how much
\* the clock advances.
NewStocks == {0, 34}
NewTotals == {0, 30}
TickSteps == {150}

\* The requests that pass validation and name an active organization, and
\* the ones that do not.
AllRequests ==
    [company_id : CompanyIds, warehouse_id : WarehouseIds,
     threshold_multiplier : Multipliers, include_no_sales : BOOLEAN, limit : Limits]
Requests ==
    { r \in AllRequests :
        \/ r.company_id = 42 /\ r.threshold_multiplier > 0 /\ r.limit <= 1000
        \/ r.warehouse_id = None /\ ~r.include_no_sales }

\* The requests of the cache runs: two cache keys, two limits each, and one
\* request that fails validation.
CacheRequests ==
    { r \in Requests :
        /\ r.company_id = 42 /\ r.warehouse_id = None
        /\ \/ r.threshold_multiplier = 2 /\ r.limit <= 1000
           \/ r.threshold_multiplier = 0 /\ r.limit = 1001 }

\* The requests of the concurrent runs: one request, so one cache key.
ConcRequests ==
    { r \in Requests :
        /\ r.company_id = 42 /\ r.warehouse_id = None
        /\ r.threshold_multiplier = 1 /\ ~r.include_no_sales /\ r.limit = 1000 }

\* ----------------------------------------------------------------------
\* State
\* ----------------------------------------------------------------------
VARIABLES
    stock,      \* Inventory.quantity_available of each product / warehouse pair
    sold,       \* quantity sold in confirmed orders of the last 30 days, per pair
    cache,      \* Redis: cache key -> entry; an expired key is gone
    now,        \* the clock, in seconds
    nreq,       \* requests started so far
    nchanges,   \* inventory and sales changes so far
    pc,         \* where each worker's request stands
    req,        \* the parsed query parameters of each worker's request
    local,      \* the handler's local variables
    resp,       \* the response returned
    touched,    \* the external calls the request has made
    fault,      \* the external call that raised, if any
    stored,     \* history: the last response stored for each (organization,
                \* warehouse, multiplier, include_no_sales) and when
    calc,       \* the last call of a helper function, with its result
    products,   \* the committed rows of the products table
    inventories,\* the committed rows of the inventory table
    next_id,    \* the sequence behind Product.id
    ncalls,     \* create_product calls started so far
    cp_pc,      \* where each worker's create_product call stands
    cp_data,    \* request.get_json() of the call
    cp_tx,      \* the call's database session: its pending product and
                \* inventory row, and whether it committed or rolled back
    cp_resp     \* the response of the call

vars == <<stock, sold, cache, now, nreq, nchanges, pc, req, local, resp, touched, fault, stored, calc,
          products, inventories, next_id, ncalls, cp_pc, cp_data, cp_tx, cp_resp>>
productVars == <<products, inventories, next_id, ncalls, cp_pc, cp_data, cp_tx, cp_resp>>
dataVars == <<stock, sold, nchanges>>
workerVars == <<pc, req, local, resp, touched, fault>>

NoRequest == [company_id |-> 0, warehouse_id |-> None, threshold_multiplier |-> 0,
              include_no_sales |-> FALSE, limit |-> 0]
NoLocal == [warehouse_id |-> None, cache_key |-> <<>>, sales_data |-> <<>>,
            low_stock_items |-> <<>>, response |-> None]
NoResponse == [status |-> 0, error |-> "", body |-> None, from_cache |-> FALSE]
NoCall == [fn |-> "none"]
NoData == [complete |-> FALSE, sku |-> <<>>, price |-> 0, warehouse_id |-> 0,
           initial_quantity |-> 0]
NoTx == [state |-> "none", product |-> None, inventory |-> None]
NoCreated == [status |-> 0, error |-> ""]

InitRest ==
    /\ cache = <<>>
    /\ now = 0
    /\ nreq = 0
    /\ nchanges = 0
    /\ pc = [w \in Workers |-> "idle"]
    /\ req = [w \in Workers |-> NoRequest]
    /\ local = [w \in Workers |-> NoLocal]
    /\ resp = [w \in Workers |-> NoResponse]
    /\ touched = [w \in Workers |-> {}]
    /\ fault = [w \in Workers |-> "none"]
    /\ stored = <<>>
    /\ calc = NoCall
    /\ products = {}
    /\ inventories = {}
    /\ next_id = 1
    /\ ncalls = 0
    /\ cp_pc = [w \in Workers |-> "idle"]
    /\ cp_data = [w \in Workers |-> NoData]
    /\ cp_tx = [w \in Workers |-> NoTx]
    /\ cp_resp = [w \in Workers |-> NoCreated]

\* Any database, an empty cache, no request yet.
Init ==
    /\ stock \in [RowKeys -> Stocks]
    /\ sold \in [RowKeys -> Totals]
    /\ InitRest

\* One database: product 1 well stocked and selling, product 2 out of
\* stock and not selling.
InitCache ==
    /\ stock = [k \in RowKeys |-> IF k[1] = 1 THEN 34 ELSE 0]
    /\ sold = [k \in RowKeys |-> IF k[1] = 1 THEN 30 ELSE 0]
    /\ InitRest

\* ----------------------------------------------------------------------
\* get_low_stock_alerts: the parts of the handler that compute
\* ----------------------------------------------------------------------
\* The two parameter checks, in the order the handler makes them; "" when
\* both pass.
ValidationError_nolimit(r) ==
    IF r.threshold_multiplier <= 0 THEN "threshold_multiplier must be positive"
    ELSE ""

ValidationError(r) ==
    IF r.threshold_multiplier <= 0 THEN "threshold_multiplier must be positive"
    ELSE IF r.limit > MaxLimit THEN "limit cannot exceed 1000"
    ELSE ""

\* The f-string cache key: the prefix and the four formatted parameters.
\* str() of an int, of None and of a bool are distinct for distinct values.
CacheKey_nosales(r) ==
    <<"low_stock_alerts", r.company_id, r.warehouse_id, r.threshold_multiplier, FALSE>>

CacheKey(r) ==
    <<"low_stock_alerts", r.company_id, r.warehouse_id, r.threshold_multiplier,
      r.include_no_sales>>

\* The four parameters the cache is meant to be keyed by.
KeyParameters(r) ==
    <<r.company_id, r.warehouse_id, r.threshold_multiplier, r.include_no_sales>>

\* Python truthiness of the optional int warehouse_id ("if warehouse_id:").
Truthy(warehouse_id) == warehouse_id # None /\ warehouse_id[1] # 0

\* The low-stock query: the pairs of the organization whose stock is below
\* threshold * multiplier, restricted to one warehouse when the filter is set.
LowStockQuery(stk, company_id, threshold_multiplier, warehouse_id) ==
    { [product_id |-> row.product_id, sku |-> row.sku,
       low_stock_threshold |-> row.low_stock_threshold,
       warehouse_id |-> row.warehouse_id, current_stock |-> stk[RowKey(row)]] :
      row \in { x \in InventoryRows :
                  /\ x.organization_id = company_id
                  /\ stk[RowKey(x)] < x.low_stock_threshold * threshold_multiplier
                  /\ (Truthy(warehouse_id) => x.warehouse_id = warehouse_id[1]) } }

\* query.all() has no ORDER BY: the rows come in any order.
Orderings(S) ==
    { q \in [1..Cardinality(S) -> S] : \A i, j \in 1..Cardinality(S) : i # j => q[i] # q[j] }

Alert(item, avg_daily_sales) ==
    LET days_until_stockout ==
            calculate_days_until_stockout(item.current_stock, Some(avg_daily_sales))
        supplier_info == get_preferred_supplier(item.product_id)
    IN  [product_id |-> item.product_id,
         sku |-> item.sku,
         warehouse_id |-> item.warehouse_id,
         current_stock |-> item.current_stock,
         threshold |-> item.low_stock_threshold,
         days_until_stockout |-> days_until_stockout,
         avg_daily_sales |-> IF avg_daily_sales > 0 THEN Some(Round2(avg_daily_sales))
                             ELSE None,
         supplier |-> supplier_info,
         urgency |-> calculate_urgency(days_until_stockout, item.current_stock),
         recommended_reorder_quantity |->
             calculate_reorder_quantity(item.low_stock_threshold, item.current_stock,
                                        supplier_info)]

\* The loop over low_stock_items: a pair without sales is skipped unless
\* include_no_sales is set.
RECURSIVE BuildAlerts(_, _, _)
BuildAlerts(items, sales_data, include_no_sales) ==
    IF items = <<>> THEN <<>>
    ELSE LET item == Head(items)
             avg_daily_sales == SalesGet(sales_data, <<item.product_id, item.warehouse_id>>)
             rest == BuildAlerts(Tail(items), sales_data, include_no_sales)
         IN  IF ~include_no_sales /\ avg_daily_sales = 0 THEN rest
             ELSE <<Alert(item, avg_daily_sales)>> \o rest

\* The loop assigns its own warehouse_id = item.warehouse_id on every pass,
\* before the skip: after the loop the handler's warehouse_id is the last
\* row's, or still the query parameter when there was no row.
WarehouseIdAfterLoop(items, warehouse_id) ==
    IF items = <<>> THEN warehouse_id ELSE Some(items[Len(items)].warehouse_id)

\* The sort key: (days_until_stockout, or 999 when it is None, current_stock).
SortKey(a) ==
    <<IF a.days_until_stockout # None THEN a.days_until_stockout[1] ELSE NoDaysSortKey,
      a.current_stock>>

KeyLess(k1, k2) == k1[1] < k2[1] \/ (k1[1] = k2[1] /\ k1[2] < k2[2])

\* list.sort is stable: an alert goes after those whose key is not greater.
RECURSIVE InsertAlert(_, _)
InsertAlert(a, sorted) ==
    IF sorted = <<>> THEN <<a>>
    ELSE IF KeyLess(SortKey(a), SortKey(Head(sorted))) THEN <<a>> \o sorted
    ELSE <<Head(sorted)>> \o InsertAlert(a, Tail(sorted))

RECURSIVE SortAlerts(_)
SortAlerts(alerts) ==
    IF alerts = <<>> THEN <<>>
    ELSE InsertAlert(alerts[Len(alerts)], SortAlerts(SubSeq(alerts, 1, Len(alerts) - 1)))

\* alerts[:limit], for a limit of either sign.
Slice(alerts, limit) ==
    LET n == Len(alerts)
        stop == IF limit >= 0 THEN (IF limit < n THEN limit ELSE n)
                ELSE (IF n + limit > 0 THEN n + limit ELSE 0)
    IN  SubSeq(alerts, 1, stop)

BuildResponse(alerts, t, r, warehouse_id) ==
    [alerts |-> alerts,
     total_alerts |-> Len(alerts),
     generated_at |-> t,
     parameters |-> [organization_id |-> r.company_id,
                     warehouse_id |-> warehouse_id,
                     threshold_multiplier |-> r.threshold_multiplier,
                     include_no_sales |-> r.include_no_sales,
                     sales_period_days |-> SalesPeriodDays]]

\* json.dumps / json.loads of the response: None is written as null and read
\* back as None, a number as a number; lists and objects go element by
\* element, strings and booleans as themselves.
JsonNull == [json |-> "null"]
JsonNumber(n) == [json |-> "number", text |-> n]

DumpOptional(o) == IF o = None THEN JsonNull ELSE JsonNumber(o[1])
LoadOptional(j) == IF j.json = "null" THEN None ELSE Some(j.text)

DumpSupplier(o) ==
    IF o = None THEN JsonNull
    ELSE [json |-> "object",
          text |-> [o[1] EXCEPT !.minimum_order_quantity = DumpOptional(@)]]
LoadSupplier(j) ==
    IF j.json = "null" THEN None
    ELSE Some([j.text EXCEPT !.minimum_order_quantity = LoadOptional(@)])

DumpAlert(a) ==
    [a EXCEPT !.days_until_stockout = DumpOptional(@),
              !.avg_daily_sales = DumpOptional(@),
              !.supplier = DumpSupplier(@)]
LoadAlert(j) ==
    [j EXCEPT !.days_until_stockout = LoadOptional(@),
              !.avg_daily_sales = LoadOptional(@),
              !.supplier = LoadSupplier(@)]

JsonDumps(response) ==
    [response EXCEPT !.alerts = [i \in 1..Len(@) |-> DumpAlert(@[i])],
                     !.parameters.warehouse_id = DumpOptional(@)]
JsonLoads(text) ==
    [text EXCEPT !.alerts = [i \in 1..Len(@) |-> LoadAlert(@[i])],
                 !.parameters.warehouse_id = LoadOptional(@)]

\* ----------------------------------------------------------------------
\* get_low_stock_alerts: the steps of one request
\* ----------------------------------------------------------------------
Put(f, k, v) == [x \in DOMAIN f \cup {k} |-> IF x = k THEN v ELSE f[x]]

Return(w, status, error, body, from_cache) ==
    /\ resp' = [resp EXCEPT ![w] = [status |-> status, error |-> error, body |-> body,
                                    from_cache |-> from_cache]]
    /\ pc' = [pc EXCEPT ![w] = "done"]

\* The except clause: any exception becomes the generic 500.
Raise(w, call) ==
    /\ fault' = [fault EXCEPT ![w] = call]
    /\ Return(w, 500, "An error occurred while generating alerts", None, FALSE)

\* get_current_user() is None, or the user has no access to the organization.
AuthFail(w, max) ==
    /\ pc[w] = "idle"
    /\ nreq < max
    /\ nreq' = nreq + 1
    /\ \E status \in {401, 403} :
         Return(w, status, IF status = 401 THEN "Unauthorized" ELSE "Access denied",
                None, FALSE)
    /\ UNCHANGED <<dataVars, cache, now, req, local, touched, fault, stored, calc, productVars>>

\* Parse the query parameters, validate them, look the organization up (a
\* database read, which may raise) and build the cache key.
Begin(w, R, max) ==
    /\ pc[w] = "idle"
    /\ nreq < max
    /\ nreq' = nreq + 1
    /\ \E r \in R :
         /\ req' = [req EXCEPT ![w] = r]
         /\ IF ValidationError(r) # ""
            THEN /\ Return(w, 400, ValidationError(r), None, FALSE)
                 /\ UNCHANGED <<local, touched, fault>>
            ELSE /\ touched' = [touched EXCEPT ![w] = {"organization"}]
                 /\ \/ /\ Raise(w, "db")
                       /\ UNCHANGED local
                    \/ /\ r.company_id \notin ActiveOrganizations
                       /\ Return(w, 404, "Organization not found", None, FALSE)
                       /\ UNCHANGED <<local, fault>>
                    \/ /\ r.company_id \in ActiveOrganizations
                       /\ local' = [local EXCEPT ![w] =
                                      [NoLocal EXCEPT !.warehouse_id = r.warehouse_id,
                                                      !.cache_key = CacheKey(r)]]
                       /\ pc' = [pc EXCEPT ![w] = "cache_get"]
                       /\ UNCHANGED <<resp, fault>>
    /\ UNCHANGED <<dataVars, cache, now, stored, calc, productVars>>

\* A single-flight read, which the handler does not have: on a miss the
\* request goes on only when no other request is computing the same key.
CacheGet_singleflight(w) ==
    /\ pc[w] = "cache_get"
    /\ touched' = [touched EXCEPT ![w] = @ \cup {"cache_get"}]
    /\ \/ /\ Raise(w, "cache_get")
          /\ UNCHANGED local
       \/ /\ LET cache_key == local[w].cache_key
                 cached_result == IF cache_key \in DOMAIN cache
                                  THEN Some(cache[cache_key].value) ELSE None
             IN  IF cached_result # None
                 THEN Return(w, 200, "", Some(JsonLoads(cached_result[1])), TRUE)
                 ELSE /\ \A v \in Workers \ {w} :
                            ~(/\ pc[v] \in {"sales", "snapshot", "build", "cache_set"}
                              /\ local[v].cache_key = cache_key)
                      /\ pc' = [pc EXCEPT ![w] = "sales"]
                      /\ UNCHANGED resp
          /\ UNCHANGED <<local, fault>>
    /\ UNCHANGED <<dataVars, cache, now, nreq, req, stored, calc, productVars>>

\* redis_client.get(cache_key): raises, hits or misses.
CacheGet(w) ==
    /\ pc[w] = "cache_get"
    /\ touched' = [touched EXCEPT ![w] = @ \cup {"cache_get"}]
    /\ \/ /\ Raise(w, "cache_get")
          /\ UNCHANGED local
       \/ /\ LET cache_key == local[w].cache_key
                 cached_result == IF cache_key \in DOMAIN cache
                                  THEN Some(cache[cache_key].value) ELSE None
             IN  IF cached_result # None
                 THEN Return(w, 200, "", Some(JsonLoads(cached_result[1])), TRUE)
                 ELSE /\ pc' = [pc EXCEPT ![w] = "sales"]
                      /\ UNCHANGED resp
          /\ UNCHANGED <<local, fault>>
    /\ UNCHANGED <<dataVars, cache, now, nreq, req, stored, calc, productVars>>

\* get_recent_sales_data(company_id, days=30)
FetchSales(w) ==
    /\ pc[w] = "sales"
    /\ touched' = [touched EXCEPT ![w] = @ \cup {"sales"}]
    /\ \/ /\ Raise(w, "db")
          /\ UNCHANGED local
       \/ /\ local' = [local EXCEPT ![w].sales_data = get_recent_sales_data(sold)]
          /\ pc' = [pc EXCEPT ![w] = "snapshot"]
          /\ UNCHANGED <<resp, fault>>
    /\ UNCHANGED <<dataVars, cache, now, nreq, req, stored, calc, productVars>>

\* low_stock_items = query.all()
FetchSnapshot(w) ==
    /\ pc[w] = "snapshot"
    /\ touched' = [touched EXCEPT ![w] = @ \cup {"snapshot"}]
    /\ \/ /\ Raise(w, "db")
          /\ UNCHANGED local
       \/ /\ \E items \in Orderings(LowStockQuery(stock, req[w].company_id,
                                                  req[w].threshold_multiplier,
                                                  local[w].warehouse_id)) :
                local' = [local EXCEPT ![w].low_stock_items = items]
          /\ pc' = [pc EXCEPT ![w] = "build"]
          /\ UNCHANGED <<resp, fault>>
    /\ UNCHANGED <<dataVars, cache, now, nreq, req, stored, calc, productVars>>

\* The loop over the rows (with its supplier look-ups), the sort, the limit
\* and the response.
Build(w) ==
    /\ pc[w] = "build"
    /\ LET items == local[w].low_stock_items
           built == BuildAlerts(items, local[w].sales_data, req[w].include_no_sales)
           alerts == Slice(SortAlerts(built), req[w].limit)
           warehouse_id == WarehouseIdAfterLoop(items, local[w].warehouse_id)
       IN  /\ touched' = [touched EXCEPT ![w] =
                            IF built # <<>> THEN @ \cup {"supplier"} ELSE @]
           /\ \/ /\ built # <<>>
                 /\ Raise(w, "db")
                 /\ UNCHANGED local
              \/ /\ local' = [local EXCEPT
                                ![w].warehouse_id = warehouse_id,
                                ![w].response =
                                    Some(BuildResponse(alerts, now, req[w], warehouse_id))]
                 /\ pc' = [pc EXCEPT ![w] = "cache_set"]
                 /\ UNCHANGED <<resp, fault>>
    /\ UNCHANGED <<dataVars, cache, now, nreq, req, stored, calc, productVars>>

\* redis_client.setex(cache_key, 300, json.dumps(response)), then the return.
CacheSet(w) ==
    /\ pc[w] = "cache_set"
    /\ touched' = [touched EXCEPT ![w] = @ \cup {"cache_set"}]
    /\ \/ /\ Raise(w, "cache_set")
          /\ UNCHANGED <<cache, stored>>
       \/ /\ cache' = Put(cache, local[w].cache_key,
                          [value |-> JsonDumps(local[w].response[1]),
                           expires |-> now + CacheTTL])
          /\ stored' = Put(stored, KeyParameters(req[w]),
                           [response |-> local[w].response[1], at |-> now])
          /\ Return(w, 200, "", local[w].response, FALSE)
          /\ UNCHANGED fault
    /\ UNCHANGED <<dataVars, now, nreq, req, local, calc, productVars>>

\* The response has gone out; the worker takes the next request.
Finish(w) ==
    /\ pc[w] = "done"
    /\ pc' = [pc EXCEPT ![w] = "idle"]
    /\ req' = [req EXCEPT ![w] = NoRequest]
    /\ local' = [local EXCEPT ![w] = NoLocal]
    /\ resp' = [resp EXCEPT ![w] = NoResponse]
    /\ touched' = [touched EXCEPT ![w] = {}]
    /\ fault' = [fault EXCEPT ![w] = "none"]
    /\ UNCHANGED <<dataVars, cache, now, nreq, stored, calc, productVars>>

\* ----------------------------------------------------------------------
\* The environment: time, inventory movements, sales
\* ----------------------------------------------------------------------
\* Time passes; Redis drops the keys whose TTL has run out.
Tick ==
    /\ \E d \in TickSteps :
         /\ now + d <= MaxTime
         /\ now' = now + d
         /\ cache' = [k \in { x \in DOMAIN cache : cache[x].expires > now + d } |-> cache[k]]
    /\ UNCHANGED <<dataVars, nreq, workerVars, stored, calc, productVars>>

SetStock ==
    /\ nchanges < MaxChanges
    /\ nchanges' = nchanges + 1
    /\ \E k \in RowKeys : \E q \in NewStocks \ {stock[k]} :
         stock' = [stock EXCEPT ![k] = q]
    /\ UNCHANGED <<sold, cache, now, nreq, workerVars, stored, calc, productVars>>

SetSold ==
    /\ nchanges < MaxChanges
    /\ nchanges' = nchanges + 1
    /\ \E k \in RowKeys : \E q \in NewTotals \ {sold[k]} :
         sold' = [sold EXCEPT ![k] = q]
    /\ UNCHANGED <<stock, cache, now, nreq, workerVars, stored, calc, productVars>>

\* The steps of a request once it is under way.
Proceed(w) ==
    \/ CacheGet(w)
    \/ FetchSales(w)
    \/ FetchSnapshot(w)
    \/ Build(w)
    \/ CacheSet(w)
    \/ Finish(w)

\* One request at a time, against a database that stands still.
Next ==
    \/ AuthFail("w1", MaxRequests)
    \/ Begin("w1", Requests, MaxRequests)
    \/ Proceed("w1")

Spec == Init /\ [][Next]_vars

\* Requests one after another, while the clock runs and stock and sales move.
NextCache ==
    \/ AuthFail("w1", MaxCacheRequests)
    \/ Begin("w1", CacheRequests, MaxCacheRequests)
    \/ Proceed("w1")
    \/ Tick
    \/ SetStock
    \/ SetSold

SpecCache == InitCache /\ [][NextCache]_vars

\* Two workers serve requests at the same time; the cache and the database
\* are all they share, and any step of one may fall between two steps of
\* the other.
NextConc ==
    \/ Begin("w1", ConcRequests, MaxConcRequests)
    \/ Begin("w2", ConcRequests, MaxConcRequests)
    \/ Proceed("w1")
    \/ Proceed("w2")
    \/ Tick
    \/ SetStock

SpecConc == InitCache /\ [][NextConc]_vars

\* ----------------------------------------------------------------------
\* The helper functions called on their own
\* ----------------------------------------------------------------------
FnStocks == -1 .. 3 \cup {5, 34, 2 * MaxFnThreshold + 1}
FnTotals == {-1, 0, 1, 30, 90}
FnDays == {None} \cup { Some(d) : d \in 0..MaxFnDays } \cup { Some(998), Some(999), Some(1000) }
FnSuppliers ==
    {None} \cup
    { Some([id |-> 11, lead_time_days |-> 9, minimum_order_quantity |-> m]) :
        m \in {None, Some(0), Some(7), Some(10), Some(25)} }

CallDays ==
  /\ UNCHANGED <<dataVars, cache, now, nreq, workerVars, stored, productVars>>
  /\ \E current_stock \in FnStocks :
      \E avg_daily_sales \in {None} \cup { Some(t) : t \in FnTotals } :
        calc' = [fn |-> "calculate_days_until_stockout",
                 current_stock |-> current_stock, avg_daily_sales |-> avg_daily_sales,
                 result |-> calculate_days_until_stockout(current_stock, avg_daily_sales)]

CallUrgency ==
  /\ UNCHANGED <<dataVars, cache, now, nreq, workerVars, stored, productVars>>
  /\ \E days_until_stockout \in FnDays : \E current_stock \in FnStocks :
        calc' = [fn |-> "calculate_urgency",
                 days_until_stockout |-> days_until_stockout,
                 current_stock |-> current_stock,
                 result |-> calculate_urgency(days_until_stockout, current_stock)]

CallReorder ==
  /\ UNCHANGED <<dataVars, cache, now, nreq, workerVars, stored, productVars>>
  /\ \E threshold \in 1..MaxFnThreshold :
      \E current_stock \in { q \in FnStocks : q >= 0 } :
        \E supplier_info \in FnSuppliers :
          calc' = [fn |-> "calculate_reorder_quantity",
                   threshold |-> threshold, current_stock |-> current_stock,
                   supplier_info |-> supplier_info,
                   result |-> calculate_reorder_quantity(threshold, current_stock,
                                                         supplier_info)]

NextFn ==
    \/ CallDays
    \/ CallUrgency
    \/ CallReorder

SpecFn == InitCache /\ [][NextFn]_vars

\* ----------------------------------------------------------------------
\* create_product
\* ----------------------------------------------------------------------
\* A SKU is a string, kept as its sequence of characters.
upper(s) ==
    [i \in 1..Len(s) |->
        CASE s[i] = "a" -> "A" [] s[i] = "b" -> "B" [] s[i] = "x" -> "X" [] OTHER -> s[i]]

RECURSIVE lstrip(_)
lstrip(s) == IF s # <<>> /\ Head(s) = " " THEN lstrip(Tail(s)) ELSE s

RECURSIVE rstrip(_)
rstrip(s) == IF s # <<>> /\ s[Len(s)] = " " THEN rstrip(SubSeq(s, 1, Len(s) - 1)) ELSE s

strip(s) == rstrip(lstrip(s))

\* The SKU stored as it was posted, which is not what the handler does.
NormalizeSku_raw(sku) == sku

\* data['sku'].strip().upper()
NormalizeSku(sku) == upper(strip(sku))

RawSkus == { <<"A", "B">>, <<"a", "b">>, <<" ", "A", "b", " ">>, <<"X">> }
Warehouses == {7, 8}
AccessibleWarehouses == {7}

\* The bodies posted: the well-formed ones, and one for each way of being
\* turned away. A price or quantity that does not parse is None.
GoodData ==
    [complete : {TRUE}, sku : RawSkus, price : {Some(10)}, warehouse_id : {7},
     initial_quantity : {Some(5)}]
BadData ==
    { d \in [complete : BOOLEAN, sku : {<<"A", "B">>}, price : {None, Some(-1), Some(10)},
             warehouse_id : {7, 8, 9}, initial_quantity : {None, Some(-1), Some(5)}] :
        Cardinality({ f \in {"complete", "price", "warehouse_id", "initial_quantity"} :
                        d[f] # [complete |-> TRUE, price |-> Some(10), warehouse_id |-> 7,
                                initial_quantity |-> Some(5)][f] }) = 1 }
CreateData == GoodData \cup BadData

\* The checks made on the body alone, in the handler's order; NoCreated
\* when all pass.
ValidateData(data) ==
    IF ~data.complete THEN [status |-> 400, error |-> "Missing required fields"]
    ELSE IF data.price = None THEN [status |-> 400, error |-> "Invalid price format"]
    ELSE IF data.price[1] < 0 THEN [status |-> 400, error |-> "Price cannot be negative"]
    ELSE IF data.initial_quantity = None
         THEN [status |-> 400, error |-> "Invalid quantity format"]
    ELSE IF data.initial_quantity[1] < 0
         THEN [status |-> 400, error |-> "Initial quantity cannot be negative"]
    ELSE NoCreated

\* Product.query.filter_by(sku=...).first() over the committed rows.
ProductsBySku(sku) == { p \in products : p.sku = sku }

\* The unique index on products.sku: an insert of a SKU that a committed
\* row holds is refused, and an insert of a SKU that another session has
\* inserted and not yet committed waits for that session to end.
UniqueViolation(sku) == ProductsBySku(sku) # {}

UniqueBlocked(w, sku) ==
    \E v \in Workers \ {w} :
        /\ cp_tx[v].state = "open"
        /\ cp_tx[v].product # None
        /\ cp_tx[v].product[1].sku = sku

CreateReturn(w, status, error) ==
    /\ cp_resp' = [cp_resp EXCEPT ![w] = [status |-> status, error |-> error]]
    /\ cp_pc' = [cp_pc EXCEPT ![w] = "done"]

\* db.session.rollback()
Rollback(w) == cp_tx' = [cp_tx EXCEPT ![w].state = "rolledback"]

\* require_auth: get_current_user() is None.
CreateUnauthorized(w) ==
    /\ cp_pc[w] = "idle"
    /\ ncalls < MaxCalls
    /\ ncalls' = ncalls + 1
    /\ CreateReturn(w, 401, "Unauthorized")
    /\ UNCHANGED <<products, inventories, next_id, cp_data, cp_tx>>
    /\ UNCHANGED <<dataVars, cache, now, nreq, workerVars, stored, calc>>

\* request.get_json() and the checks of the required fields, the price and
\* the quantity.
CreateBegin(w) ==
    /\ cp_pc[w] = "idle"
    /\ ncalls < MaxCalls
    /\ ncalls' = ncalls + 1
    /\ \E data \in CreateData :
         /\ cp_data' = [cp_data EXCEPT ![w] = data]
         /\ IF ValidateData(data) # NoCreated
            THEN CreateReturn(w, ValidateData(data).status, ValidateData(data).error)
            ELSE /\ cp_pc' = [cp_pc EXCEPT ![w] = "warehouse"]
                 /\ UNCHANGED cp_resp
    /\ UNCHANGED <<products, inventories, next_id, cp_tx>>
    /\ UNCHANGED <<dataVars, cache, now, nreq, workerVars, stored, calc>>

\* Warehouse.query.get(data['warehouse_id']) and has_access_to_warehouse.
CreateWarehouse(w) ==
    /\ cp_pc[w] = "warehouse"
    /\ IF cp_data[w].warehouse_id \notin Warehouses
       THEN CreateReturn(w, 404, "Warehouse not found")
       ELSE IF cp_data[w].warehouse_id \notin AccessibleWarehouses
       THEN CreateReturn(w, 403, "Access denied to this warehouse")
       ELSE /\ cp_pc' = [cp_pc EXCEPT ![w] = "check"]
            /\ UNCHANGED cp_resp
    /\ UNCHANGED <<products, inventories, next_id, ncalls, cp_data, cp_tx>>
    /\ UNCHANGED <<dataVars, cache, now, nreq, workerVars, stored, calc>>

\* The SKU look-up before the insert: the SKU as posted, not as it will
\* be stored, is looked for among the committed rows.
CreateCheck(w) ==
    /\ cp_pc[w] = "check"
    /\ IF ProductsBySku(cp_data[w].sku) # {}
       THEN CreateReturn(w, 409, "SKU already exists")
       ELSE /\ cp_pc' = [cp_pc EXCEPT ![w] = "flush"]
            /\ UNCHANGED cp_resp
    /\ UNCHANGED <<products, inventories, next_id, ncalls, cp_data, cp_tx>>
    /\ UNCHANGED <<dataVars, cache, now, nreq, workerVars, stored, calc>>

\* Product(...), db.session.add(product), db.session.flush(): the INSERT
\* goes to the database inside the session's transaction. An
\* IntegrityError is answered with a rollback and 409.
CreateFlush(w) ==
    /\ cp_pc[w] = "flush"
    /\ LET sku == NormalizeSku(cp_data[w].sku)
           product == [id |-> next_id, sku |-> sku]
       IN  /\ ~UniqueBlocked(w, sku)
           /\ next_id' = next_id + 1
           /\ IF UniqueViolation(sku)
              THEN /\ cp_tx' = [cp_tx EXCEPT ![w] =
                                  [state |-> "rolledback", product |-> Some(product),
                                   inventory |-> None]]
                   /\ CreateReturn(w, 409, "Database constraint violation")
              ELSE /\ cp_tx' = [cp_tx EXCEPT ![w] =
                                  [state |-> "open", product |-> Some(product),
                                   inventory |-> None]]
                   /\ cp_pc' = [cp_pc EXCEPT ![w] = "inventory"]
                   /\ UNCHANGED cp_resp
    /\ UNCHANGED <<products, inventories, ncalls, cp_data>>
    /\ UNCHANGED <<dataVars, cache, now, nreq, workerVars, stored, calc>>

\* The inventory row of the new product in the warehouse: the quantity is
\* added to the row if there is one, and a row is made if there is none.
CreateInventory(w) ==
    /\ cp_pc[w] = "inventory"
    /\ LET product == cp_tx[w].product[1]
           existing_inventory ==
               { i \in inventories : /\ i.product_id = product.id
                                     /\ i.warehouse_id = cp_data[w].warehouse_id }
           quantity ==
               IF existing_inventory # {}
               THEN (CHOOSE i \in existing_inventory : TRUE).quantity
                    + cp_data[w].initial_quantity[1]
               ELSE cp_data[w].initial_quantity[1]
       IN  cp_tx' = [cp_tx EXCEPT ![w].inventory =
                        Some([product_id |-> product.id,
                              warehouse_id |-> cp_data[w].warehouse_id,
                              quantity |-> quantity])]
    /\ cp_pc' = [cp_pc EXCEPT ![w] = "commit"]
    /\ UNCHANGED <<products, inventories, next_id, ncalls, cp_data, cp_resp>>
    /\ UNCHANGED <<dataVars, cache, now, nreq, workerVars, stored, calc>>

\* db.session.commit() and the 201.
CreateCommit(w) ==
    /\ cp_pc[w] = "commit"
    /\ LET product == cp_tx[w].product[1]
           inventory == cp_tx[w].inventory[1]
       IN  /\ products' = products \cup {product}
           /\ inventories' =
                { i \in inventories : ~(/\ i.product_id = inventory.product_id
                                        /\ i.warehouse_id = inventory.warehouse_id) }
                \cup {inventory}
    /\ cp_tx' = [cp_tx EXCEPT ![w].state = "committed"]
    /\ CreateReturn(w, 201, "")
    /\ UNCHANGED <<next_id, ncalls, cp_data>>
    /\ UNCHANGED <<dataVars, cache, now, nreq, workerVars, stored, calc>>

\* A database call raises something other than an IntegrityError: the
\* session is rolled back and the answer is 500, from the inner handler
\* once the insert has begun and from the outer one before.
CreateDbError(w) ==
    /\ cp_pc[w] \in {"warehouse", "check", "flush", "inventory", "commit"}
    /\ Rollback(w)
    /\ CreateReturn(w, 500, IF cp_pc[w] \in {"warehouse", "check"}
                            THEN "An unexpected error occurred"
                            ELSE "Database error occurred")
    /\ UNCHANGED <<products, inventories, next_id, ncalls, cp_data>>
    /\ UNCHANGED <<dataVars, cache, now, nreq, workerVars, stored, calc>>

\* The response has gone out; the worker takes the next call.
CreateFinish(w) ==
    /\ cp_pc[w] = "done"
    /\ cp_pc' = [cp_pc EXCEPT ![w] = "idle"]
    /\ cp_data' = [cp_data EXCEPT ![w] = NoData]
    /\ cp_tx' = [cp_tx EXCEPT ![w] = NoTx]
    /\ cp_resp' = [cp_resp EXCEPT ![w] = NoCreated]
    /\ UNCHANGED <<products, inventories, next_id, ncalls>>
    /\ UNCHANGED <<dataVars, cache, now, nreq, workerVars, stored, calc>>

create_product(w) ==
    \/ CreateUnauthorized(w)
    \/ CreateBegin(w)
    \/ CreateWarehouse(w)
    \/ CreateCheck(w)
    \/ CreateFlush(w)
    \/ CreateInventory(w)
    \/ CreateCommit(w)
    \/ CreateDbError(w)
    \/ CreateFinish(w)

\* Two workers serve create_product calls at the same time.
NextProduct ==
    \/ create_product("w1")
    \/ create_product("w2")

SpecProduct == InitCache /\ [][NextProduct]_vars

\* ----------------------------------------------------------------------
\* Properties
\* ----------------------------------------------------------------------
Done(w) == pc[w] = "done" /\ req[w] # NoRequest
Fresh(w) == Done(w) /\ resp[w].status = 200 /\ ~resp[w].from_cache
Alerts(w) == resp[w].body[1].alerts
Pairs(n) == { p \in (1..n) \X (1..n) : p[1] < p[2] }

\* C1: a cache read or cache write that raises never fails the request: the
\* request still ends with a 200 and an envelope.
C1_CacheFailureNeverFailsRequest ==
    \A w \in Workers :
        (Done(w) /\ fault[w] \in {"cache_get", "cache_set"})
            => (resp[w].status = 200 /\ resp[w].body # None)

\* C2: every successful response holds at most the limit of the request it
\* answers, cached or not.
C2_AtMostOwnLimit ==
    \A w \in Workers :
        (Done(w) /\ resp[w].status = 200) => Len(Alerts(w)) <= req[w].limit

InfinityLess(a, b) ==
    \/ a.days_until_stockout # None
       /\ (b.days_until_stockout = None
           \/ a.days_until_stockout[1] < b.days_until_stockout[1])
    \/ a.days_until_stockout = b.days_until_stockout
       /\ a.current_stock < b.current_stock

\* C3: a freshly computed result is in ascending order of
\* (days_until_stockout, current_stock), None counting as +infinity: no alert
\* comes after one whose pair is greater.
C3_SortedWithNoneAsInfinity ==
    \A w \in Workers :
        Fresh(w) => \A p \in Pairs(Len(Alerts(w))) :
                        ~InfinityLess(Alerts(w)[p[2]], Alerts(w)[p[1]])

\* C4: an alert for a pair that is out of stock has days_until_stockout = 0
\* and urgency critical, whether or not the pair has sales in the window.
C4_OutOfStockIsZeroDays ==
    \A w \in Workers :
        Fresh(w) => \A i \in 1..Len(Alerts(w)) :
                        Alerts(w)[i].current_stock <= 0
                            => /\ Alerts(w)[i].days_until_stockout = Some(0)
                               /\ Alerts(w)[i].urgency = "critical"

Max(a, b) == IF a >= b THEN a ELSE b
RoundUpTo10(n) == CHOOSE m \in { 10 * k : k \in 0..(n + 10) } : m >= n /\ m - n < 10
MoqOf(supplier_info) ==
    IF supplier_info = None \/ supplier_info[1].minimum_order_quantity = None THEN 0
    ELSE supplier_info[1].minimum_order_quantity[1]

\* C5: the reorder quantity is a multiple of 10, at least 10, and equals
\* max(10, round-up-to-10(max(max(0, 2 * threshold - current_stock), moq))),
\* an absent minimum order quantity counting as 0.
C5_ReorderQuantity ==
    calc.fn = "calculate_reorder_quantity"
        => /\ calc.result >= 10
           /\ calc.result % 10 = 0
           /\ calc.result =
                Max(10, RoundUpTo10(Max(Max(0, 2 * calc.threshold - calc.current_stock),
                                        MoqOf(calc.supplier_info))))

\* C5's case: stock above twice the threshold and a supplier whose minimum
\* is not a multiple of 10.
C5_Witness ==
    /\ calc.fn = "calculate_reorder_quantity"
    /\ calc.current_stock > 2 * calc.threshold
    /\ MoqOf(calc.supplier_info) = 7
    /\ calc.result = 10

UrgencyPolicy(days, current_stock) ==
    CASE current_stock <= 0 -> "critical"
      [] current_stock > 0 /\ days = None -> "low"
      [] current_stock > 0 /\ days # None /\ days[1] <= 3 -> "critical"
      [] current_stock > 0 /\ days # None /\ days[1] \in 4..7 -> "high"
      [] current_stock > 0 /\ days # None /\ days[1] \in 8..14 -> "medium"
      [] current_stock > 0 /\ days # None /\ days[1] > 14 -> "low"

\* C6: calculate_urgency follows the policy table: out of stock is critical;
\* otherwise no days is low, days <= 3 critical, 4..7 high, 8..14 medium and
\* anything above 14 low.
C6_UrgencyTable ==
    calc.fn = "calculate_urgency"
        => calc.result = UrgencyPolicy(calc.days_until_stockout, calc.current_stock)

\* C6's case: a boundary value lands in the more urgent tier.
C6_Witness ==
    /\ calc.fn = "calculate_urgency"
    /\ calc.current_stock > 0
    /\ calc.days_until_stockout = Some(7)
    /\ calc.result = "high"

\* C7: a request whose multiplier is not positive or whose limit is above
\* 1000 ends with a 400 before any external call; a request with a positive
\* multiplier and a limit of at most 1000 is never answered 400 and goes on
\* to the organization look-up and, for an active organization whose
\* look-up does not raise, to the cache.
C7_ValidationShortCircuits ==
    \A w \in Workers :
        req[w] # NoRequest =>
            IF req[w].threshold_multiplier <= 0 \/ req[w].limit > 1000
            THEN /\ pc[w] = "done"
                 /\ resp[w].status = 400
                 /\ touched[w] = {}
            ELSE /\ resp[w].status # 400
                 /\ "organization" \in touched[w]
                 /\ (pc[w] = "done" /\ req[w].company_id \in ActiveOrganizations
                        /\ fault[w] = "none")
                        => "cache_get" \in touched[w]

\* C7's case: limit = 1001 with a valid multiplier was turned away untouched.
C7_Witness ==
    \E w \in Workers :
        /\ pc[w] = "done"
        /\ req[w].limit = 1001 /\ req[w].threshold_multiplier > 0
        /\ resp[w].status = 400
        /\ touched[w] = {}

C8_CacheRead(w) ==
    LET k == KeyParameters(req[w])
    IN  IF k \in DOMAIN stored /\ now < stored[k].at + CacheTTL
        THEN /\ pc'[w] = "done"
             /\ resp'[w].status = 200
             /\ resp'[w].body = Some(stored[k].response)
             /\ touched'[w] \cap {"sales", "snapshot", "supplier", "cache_set"} = {}
        ELSE pc'[w] = "sales"

\* C8: when a request reads the cache and the read does not raise, then if a
\* response was stored for its (organization, warehouse, multiplier,
\* include_no_sales) less than 300 seconds ago the request returns exactly
\* that response with a 200 and fetches no sales, snapshot or supplier data;
\* otherwise it goes on to recompute.
C8_HitReturnsStoredEnvelope ==
    [][\A w \in Workers :
          (pc[w] = "cache_get" /\ pc'[w] # "cache_get" /\ fault'[w] = "none")
              => C8_CacheRead(w)]_vars

\* C8's case: a request was answered from the cache at a later time than the
\* response was generated, after the stock it reports had changed.
C8_Witness ==
    \E w \in Workers :
        /\ Done(w) /\ resp[w].status = 200 /\ resp[w].from_cache
        /\ resp[w].body[1].generated_at < now
        /\ \E i \in 1..Len(Alerts(w)) :
             Alerts(w)[i].current_stock
                 # stock[<<Alerts(w)[i].product_id, Alerts(w)[i].warehouse_id>>]

\* C9: the parameters of a freshly computed envelope echo the request:
\* organization, warehouse filter (None without one), multiplier,
\* include_no_sales, and a sales period of 30 days.
C9_ParametersEchoRequest ==
    \A w \in Workers :
        Fresh(w) =>
            resp[w].body[1].parameters =
                [organization_id |-> req[w].company_id,
                 warehouse_id |-> req[w].warehouse_id,
                 threshold_multiplier |-> req[w].threshold_multiplier,
                 include_no_sales |-> req[w].include_no_sales,
                 sales_period_days |-> 30]

UrgencyRank(u) ==
    CASE u = "critical" -> 3 [] u = "high" -> 2 [] u = "medium" -> 1 [] OTHER -> 0

\* C10: in a freshly computed result no alert of a less urgent tier comes
\* before one of a more urgent tier (critical > high > medium > low).
C10_SortedByUrgencyTier ==
    \A w \in Workers :
        Fresh(w) => \A p \in Pairs(Len(Alerts(w))) :
                        UrgencyRank(Alerts(w)[p[1]].urgency)
                            >= UrgencyRank(Alerts(w)[p[2]].urgency)

InFlight(w) == pc[w] \in {"cache_get", "sales", "snapshot", "build", "cache_set"}
Recomputed(w) == Fresh(w) /\ "sales" \in touched[w]
SameKey == \A w, v \in Workers : local[w].cache_key = local[v].cache_key

\* C11: with no single-flight guard, requests for one cache key that run
\* at the same time never wait for each other (a request under way can
\* always take its next step without an error, wherever the others
\* stand); a request none
\* of whose external calls raised ends with 200 and an envelope; and once
\* all of them have missed, recomputed and returned, the key holds, until
\* its TTL runs out, the envelope one of them stored.
C11_StampedeRecomputesIndependently ==
    /\ \A w \in Workers : InFlight(w) => ENABLED (Proceed(w) /\ fault'[w] = "none")
    /\ \A w \in Workers :
         Done(w) /\ fault[w] = "none" /\ ValidationError(req[w]) = "" =>
            resp[w].status = 200 /\ resp[w].body # None
    /\ (/\ \A w \in Workers : Recomputed(w)
        /\ SameKey
        /\ now < stored[KeyParameters(req["w1"])].at + CacheTTL) =>
            /\ local["w1"].cache_key \in DOMAIN cache
            /\ \E w \in Workers :
                 cache[local["w1"].cache_key].value = JsonDumps(resp[w].body[1])

\* Both requests missed, each computed its own envelope, the two envelopes
\* differ, and the key holds one of them.
C11_Witness ==
    /\ \A w \in Workers : Recomputed(w)
    /\ SameKey
    /\ resp["w1"].body # resp["w2"].body
    /\ local["w1"].cache_key \in DOMAIN cache
    /\ cache[local["w1"].cache_key].value = JsonDumps(resp["w1"].body[1])

Created(w) == cp_pc[w] = "done" /\ cp_data[w] # NoData
WellFormed(w) ==
    /\ ValidateData(cp_data[w]) = NoCreated
    /\ cp_data[w].warehouse_id \in AccessibleWarehouses
\* Another call's product holds the SKU this call would store.
SkuTaken(w) ==
    \E p \in products :
        /\ p.sku = NormalizeSku(cp_data[w].sku)
        /\ cp_tx[w].product # None => p.id # cp_tx[w].product[1].id
OwnRows(w) ==
    IF cp_tx[w].product = None THEN {}
    ELSE { p \in products : p.id = cp_tx[w].product[1].id }
         \cup { i \in inventories : i.product_id = cp_tx[w].product[1].id }
C12_Tables ==
    /\ \A p, q \in products : p.sku = q.sku => p = q
    /\ \A p \in products : p.sku = upper(p.sku) /\ p.sku = strip(p.sku)
    /\ \A w \in Workers :
         Created(w) /\ WellFormed(w) /\ cp_resp[w].status # 500 =>
            /\ cp_resp[w].status \in {201, 409}
            /\ SkuTaken(w) => cp_resp[w].status = 409
            /\ cp_resp[w].status = 409 => SkuTaken(w) /\ OwnRows(w) = {}
C12_Conflict ==
    \A w \in Workers :
        cp_pc[w] # "done" /\ cp_pc'[w] = "done" /\ cp_resp'[w].status = 409 =>
            products' = products /\ inventories' = inventories

====
